---- MODULE Spec2Model ----
(***************************************************************************)
(* Model of backend/main.py of story_weaver: the two request handlers      *)
(* start_story and next_step, the narrative client generate_story_part,    *)
(* the image client _blocking_image_generation (retry with backoff) and    *)
(* the image orchestrator generate_consistent_image (reference choice,     *)
(* persistence, fallback).                                                 *)
(*                                                                         *)
(* Each request is a process p.  A handler is cut into actions at its      *)
(* await points and at the iterations of the retry loop; everything the    *)
(* external world decides (the request, the generator's reply, each image  *)
(* reply, whether a file can be read or written, the uuid4 token) is an    *)
(* input drawn with \E.  Strings are kept as strings; Python's None is     *)
(* the string "None"; a dict is a record whose DOMAIN is its key set.      *)
(***************************************************************************)
EXTENDS Integers, Sequences, FiniteSets, TLC

VARIABLES
    pc,                     \* position of each request in its handler
    op,                     \* "start_story" | "next_step" | "None"
    request,                \* the parsed request body
    image_input_for_gemini, \* start_story: the decoded upload, or None
    prompt,                 \* the prompt sent to the narrative capability
    is_final_step,          \* next_step local
    narrative_calls,        \* calls made to the narrative capability
    narrative_reply,        \* what the narrative call produced
    ai_data,                \* dict returned by generate_story_part
    image_args,             \* arguments of generate_consistent_image
    previous_image_object,  \* reference handed to the image client
    attempt,                \* loop variable of _blocking_image_generation
    delays,                 \* the time.sleep() calls made, in order
    image_calls,            \* calls made to the image capability
    image_reply,            \* what the latest image call produced
    last_error,             \* the exception e caught by the latest failed attempt
    raised,                 \* exception that left _blocking_image_generation
    image_data,             \* bytes returned by _blocking_image_generation
    saved_as,               \* filename written by this request, or None
    failed_at,              \* step of generate_consistent_image that raised, or None
    generated_image_url,    \* value returned by generate_consistent_image
    response,               \* what the client receives
    generated_images        \* the directory generated_images/: filename -> content

vars == <<pc, op, request, image_input_for_gemini, prompt, is_final_step,
          narrative_calls, narrative_reply, ai_data, image_args,
          previous_image_object, attempt, delays, image_calls, image_reply, last_error, raised, image_data, saved_as,
          failed_at, generated_image_url, response, generated_images>>

----------------------------------------------------------------------------
(* Bounds of the model *)

\* longest story_history a request carries
MaxHistory == 1
\* largest current_step / total_steps a request carries
MaxSteps == 2
\* the same two limits for the requests of the prompt specification
PromptMaxHistory == 2
PromptMaxSteps == 4

----------------------------------------------------------------------------
(* Program constants *)

None == "None"

\* _blocking_image_generation: max_retries = 3
max_retries == 3
\* _blocking_image_generation: initial_delay = 2
initial_delay == 2

IMAGE_CONSISTENCY_RULE == "maintain visual consistency ... generate the following scene:"
BASE_URL == "http://127.0.0.1:8000"
PLACEHOLDER_URL == "https://via.placeholder.com/512x512.png?text=Image+Generation+Failed"
\* next_step: the quest line used when story_history is empty
DefaultQuest == "continue exploring"
\* next_step: user_choice_text before the lookup
ContinueText == "continue"

----------------------------------------------------------------------------
(* Python helpers *)

\* truth value of an Optional[str] / Optional[Image]: None and "" are falsy
Truthy(s) == s # None /\ s # ""

\* str.strip() on the strings of the model (" " is the whitespace-only string)
Strip(s) == IF s = " " THEN "" ELSE s

----------------------------------------------------------------------------
(* Request bodies *)

\* StoryChoice / StoryResponse values a client can send back as history
Choice(id, text) == [id |-> id, text |-> text]

StepPool ==
    { [text |-> "t1", image_url |-> None, main_quest |-> "q1",
       choices |-> <<Choice("A", "ta"), Choice("B", "tb")>>],
      [text |-> "t2", image_url |-> None, main_quest |-> "q2",
       choices |-> <<Choice("A", "tc"), Choice("A", "td")>>] }

StoryHistories == UNION { [1..n -> StepPool] : n \in 0..MaxHistory }

ChoiceIds == {None, "", "A", "B", "C"}
UserActions == {None, "", " ", "act"}

\* addresses a client can send as previous_image_url: none, empty, the
\* address of a stored file, the address of a file that is not stored
StoredFile == "f0.png"
ImageUrl(filename) == BASE_URL \o "/images/" \o filename
PreviousImageUrls == {None, "", ImageUrl(StoredFile), ImageUrl("gone.png")}

\* uuid4 tokens
UuidPool == {"u1", "u2"}
Filename(u) == u \o ".png"

\* os.path.basename of an address (the addresses of the model end in a filename)
Basename(url) ==
    LET names == {StoredFile, "gone.png"} \cup {Filename(u) : u \in UuidPool}
    IN  IF \E f \in names : ImageUrl(f) = url
        THEN CHOOSE f \in names : ImageUrl(f) = url
        ELSE url

NextStepBodies ==
    [choice_id : ChoiceIds, user_action : UserActions,
     story_history : StoryHistories, previous_image_url : PreviousImageUrls,
     current_step : 1..MaxSteps, total_steps : 1..MaxSteps]

\* next_step bodies with longer histories and stories, without a previous image
PromptHistories == UNION { [1..n -> StepPool] : n \in 0..PromptMaxHistory }

PromptBodies ==
    [choice_id : ChoiceIds, user_action : UserActions,
     story_history : PromptHistories, previous_image_url : {None},
     current_step : 1..PromptMaxSteps, total_steps : 1..PromptMaxSteps]

\* image_data_url payloads: with and without the "data:...;base64," header,
\* decodable ("good") or not
ImageDataUrls == {None, "", " ", "data:image/png;base64,good", "good", "bad"}
Characters == {None, " ", "Mimi"}

StoryStartBodies ==
    [character : Characters, setting : {"forest"}, total_steps : 1..MaxSteps,
     image_data_url : ImageDataUrls]

----------------------------------------------------------------------------
(* Validators *)

\* check_character_or_image as it was before both were allowed together
check_character_or_image_ExactlyOne(data) ==
    LET character_exists == data.character # None /\ Strip(data.character) # ""
        image_exists == data.image_data_url # None /\ Strip(data.image_data_url) # ""
    IN  character_exists # image_exists

\* StoryStartRequest.check_character_or_image: TRUE iff the body is accepted
check_character_or_image(data) ==
    LET character_exists == data.character # None /\ Strip(data.character) # ""
        image_exists == data.image_data_url # None /\ Strip(data.image_data_url) # ""
    IN  ~(~character_exists /\ ~image_exists)

\* check_choice_or_action without the check at lines 89-90
check_choice_or_action_AllowsBoth(data) ==
    LET choice_exists == data.choice_id # None
        action_exists == data.user_action # None /\ Truthy(Strip(data.user_action))
    IN  ~(~choice_exists /\ ~action_exists)

\* NextStepRequest.check_choice_or_action: TRUE iff the body is accepted
check_choice_or_action(data) ==
    LET choice_exists == data.choice_id # None
        action_exists == data.user_action # None /\ Truthy(Strip(data.user_action))
    IN  ~(choice_exists /\ action_exists) /\ ~(~choice_exists /\ ~action_exists)

----------------------------------------------------------------------------
(* decode_base64_to_image *)

\* the part after the first comma, or the whole string
Base64Data(base64_string) ==
    IF base64_string = "data:image/png;base64,good" THEN "good" ELSE base64_string

\* b64decode + Image.open: the image, or "DecodeError" when either raises
decode_base64_to_image(base64_string) ==
    IF Base64Data(base64_string) = "good" THEN "upload" ELSE "DecodeError"

----------------------------------------------------------------------------
(* Prompt composition *)

\* start_story, lines 234-257
InitialPrompt(data) ==
    [kind |-> "opening",
     protagonist |-> IF Truthy(data.image_data_url)
                     THEN (IF Truthy(data.character) THEN "image_named" ELSE "image")
                     ELSE "text",
     character |-> data.character,
     setting |-> data.setting,
     total_steps |-> data.total_steps]

\* MainQuestLine without the default for an empty history
MainQuestLine_NoDefault(story_history) ==
    IF story_history # <<>> THEN story_history[1].main_quest ELSE None

\* next_step, lines 279 and 337
MainQuestLine(story_history) ==
    IF story_history # <<>> THEN story_history[1].main_quest ELSE DefaultQuest

\* next_step, lines 289-292: the text of the first choice with that id
RECURSIVE FirstChoiceText(_, _, _)
FirstChoiceText(choices, choice_id, i) ==
    IF i > Len(choices) THEN ContinueText
    ELSE IF choices[i].id = choice_id THEN choices[i].text
    ELSE FirstChoiceText(choices, choice_id, i + 1)

\* next_step, lines 286-292
UserChoiceText(story_history, choice_id) ==
    IF story_history # <<>>
    THEN FirstChoiceText(story_history[Len(story_history)].choices, choice_id, 1)
    ELSE ContinueText

\* next_step, lines 280-293; <<>> is the empty string
ActionDescriptionLine(data) ==
    IF Truthy(data.user_action) THEN <<"custom action", data.user_action>>
    ELSE IF Truthy(data.choice_id)
         THEN <<"chose option", UserChoiceText(data.story_history, data.choice_id)>>
         ELSE <<>>

\* next_step, line 295
IsFinalStep(data) == data.current_step = data.total_steps

\* NarrativeGuidance entering the climax only after three quarters
NarrativeGuidance_StrictClimax(data) ==
    IF IsFinalStep(data)
    THEN [phase |-> "finale", quest |-> <<MainQuestLine(data.story_history)>>,
          position |-> <<>>]
    ELSE IF 4 * data.current_step > 3 * data.total_steps
    THEN [phase |-> "climax", quest |-> <<>>,
          position |-> <<data.current_step, data.total_steps>>]
    ELSE [phase |-> "developing", quest |-> <<MainQuestLine(data.story_history)>>,
          position |-> <<data.current_step, data.total_steps>>]

\* next_step, lines 294-312; current_step >= total_steps * 0.75 in integers
NarrativeGuidance(data) ==
    IF IsFinalStep(data)
    THEN [phase |-> "finale", quest |-> <<MainQuestLine(data.story_history)>>,
          position |-> <<>>]
    ELSE IF 4 * data.current_step >= 3 * data.total_steps
    THEN [phase |-> "climax", quest |-> <<>>,
          position |-> <<data.current_step, data.total_steps>>]
    ELSE [phase |-> "developing", quest |-> <<MainQuestLine(data.story_history)>>,
          position |-> <<data.current_step, data.total_steps>>]

\* next_step, lines 313-315
StoryContext(story_history) ==
    [i \in 1..Len(story_history) |-> [n |-> i, text |-> story_history[i].text]]

\* next_step, lines 316-323
ContinuationPrompt(data) ==
    [kind |-> "continuation",
     story_context |-> StoryContext(data.story_history),
     action_description_line |-> ActionDescriptionLine(data),
     main_quest_line |-> MainQuestLine(data.story_history),
     narrative_guidance |-> NarrativeGuidance(data)]

\* lines 260 and 328
FinalImagePrompt(image_prompt) == <<IMAGE_CONSISTENCY_RULE, image_prompt>>

----------------------------------------------------------------------------
(* What the external capabilities can answer *)

\* a dict parsed from the narrative capability's JSON text
FullAiData(choices) ==
    [text |-> "nt", image_prompt |-> "scene", choices |-> choices, main_quest |-> "q2"]

TwoChoices == <<Choice("A", "na"), Choice("B", "nb")>>

\* d without key k
WithoutKey(d, k) == [x \in DOMAIN d \ {k} |-> d[x]]

\* d with d[k] = v
WithKey(d, k, v) == [x \in DOMAIN d \cup {k} |-> IF x = k THEN v ELSE d[x]]

\* JSON objects the capability can return: the four keys with no or two
\* choices, a choice entry without "text", and objects that lack one key
AiDatas ==
    { FullAiData(<<>>), FullAiData(TwoChoices), FullAiData(<<[id |-> "A"]>>) }
    \cup { WithoutKey(FullAiData(TwoChoices), k) :
             k \in {"text", "image_prompt", "choices", "main_quest"} }

\* outcomes of _blocking_generate_story_part followed by json.loads
NarrativeReplies ==
    { [kind |-> "service_error"], [kind |-> "not_json"] }
    \cup { [kind |-> "json", value |-> d] : d \in AiDatas }

\* parts of candidates[0].content of an image reply
TextPart == [inline_data |-> None]
InlinePart(bytes) == [inline_data |-> bytes]

\* outcomes of one generate_content call of the image client: the call (or
\* reading candidates[0].content.parts) raises, or it yields a list of parts;
\* "junk" is a payload that is no image
ImageReplies ==
    { [raises |-> TRUE, parts |-> <<>>] }
    \cup { [raises |-> FALSE, parts |-> ps] :
             ps \in { <<>>, <<TextPart>>,
                      <<TextPart, InlinePart("png1"), InlinePart("junk")>>,
                      <<InlinePart("junk"), InlinePart("png1")>> } }

----------------------------------------------------------------------------
(* _blocking_image_generation *)

\* lines 171-174: the inline_data of the first part that has one, else None
RECURSIVE FirstInlineData(_, _)
FirstInlineData(parts, i) ==
    IF i > Len(parts) THEN None
    ELSE IF parts[i].inline_data # None THEN parts[i].inline_data
    ELSE FirstInlineData(parts, i + 1)

\* AttemptError without line 175: a reply without payload is no exception
AttemptError_IgnoresEmptyReply(reply) ==
    IF reply.raises THEN "ApiError" ELSE None

\* lines 170-177: None when the attempt returns, else the exception it catches
AttemptError(reply) ==
    IF reply.raises THEN "ApiError"
    ELSE IF FirstInlineData(reply.parts, 1) = None THEN "ValueError: no image data"
    ELSE None

\* RetryAllowed giving up after the second attempt
RetryAllowed_TwoAttempts(a) == a < max_retries - 2

\* RetryAllowed sleeping after the last attempt as well
RetryAllowed_SleepAfterLast(a) == a < max_retries

\* line 179
RetryAllowed(a) == a < max_retries - 1

\* BackoffDelay without the doubling
BackoffDelay_NoDoubling(a) == initial_delay

\* line 181
BackoffDelay(a) == initial_delay * (2 ^ a)

\* line 167: range(max_retries)
InRange(a) == a < max_retries

\* an exception of the image client: its kind and the call (1, 2, 3) that raised it
NoError == [type |-> None, call |-> 0]

\* line 189: the exception raised when the loop ends without a return
LoopEnded == [type |-> "ValueError: retry loop ended", call |-> 0]

----------------------------------------------------------------------------
(* generate_consistent_image *)

\* line 204: Image.open(BytesIO(image_data)) succeeds
Decodable(bytes) == bytes # "junk"

\* uuid4 repeating a token that already names a file
FreshUuids_AnyToken(files) == UuidPool

\* line 206: uuid4 tokens not in use as a filename
FreshUuids(files) == {u \in UuidPool : Filename(u) \notin DOMAIN files}

\* FallbackAddress without the reuse of the previous address
FallbackAddress_AlwaysPlaceholder(previous_image_url) == PLACEHOLDER_URL

\* FallbackAddress without the placeholder
FallbackAddress_AlwaysPrevious(previous_image_url) == previous_image_url

\* lines 217-223
FallbackAddress(previous_image_url) ==
    IF Truthy(previous_image_url) THEN previous_image_url ELSE PLACEHOLDER_URL

----------------------------------------------------------------------------
(* Responses *)

Rejected == [status |-> 422]
ServerError == [status |-> 500]
Ok(body) == [status |-> 200, body |-> body]

\* StoryChoice(**choice) succeeds for every entry
ValidChoices(choices) ==
    \A i \in 1..Len(choices) : {"id", "text"} \subseteq DOMAIN choices[i]

\* start_story, lines 269-274
StartStoryResponse(d, url) ==
    IF {"text", "choices", "main_quest"} \subseteq DOMAIN d /\ ValidChoices(d.choices)
    THEN Ok([text |-> d.text, image_url |-> url, choices |-> d.choices,
             main_quest |-> d.main_quest])
    ELSE ServerError

\* NextStepResponse echoing the generator's main_quest, as start_story does
NextStepResponse_EchoesGenerator(d, url, story_history) == StartStoryResponse(d, url)

\* next_step, lines 337-344
NextStepResponse(d, url, story_history) ==
    IF {"text", "choices"} \subseteq DOMAIN d /\ ValidChoices(d.choices)
    THEN Ok([text |-> d.text, image_url |-> url, choices |-> d.choices,
             main_quest |-> MainQuestLine(story_history)])
    ELSE ServerError

\* ForceFinalChoices leaving the generator's choices in place
ForceFinalChoices_Never(d, final) == d

\* ForceFinalChoices emptying the choices of every step
ForceFinalChoices_Always(d, final) == WithKey(d, "choices", <<>>)

\* next_step, lines 326-327
ForceFinalChoices(d, final) == IF final THEN WithKey(d, "choices", <<>>) ELSE d

----------------------------------------------------------------------------
(* Initial state: the requests have not arrived; one file is stored *)

Requests == {1}

InitFor(procs) ==
    /\ pc = [p \in procs |-> "idle"]
    /\ op = [p \in procs |-> None]
    /\ request = [p \in procs |-> <<>>]
    /\ image_input_for_gemini = [p \in procs |-> None]
    /\ prompt = [p \in procs |-> <<>>]
    /\ is_final_step = [p \in procs |-> FALSE]
    /\ narrative_calls = [p \in procs |-> 0]
    /\ narrative_reply = [p \in procs |-> [kind |-> None]]
    /\ ai_data = [p \in procs |-> <<>>]
    /\ image_args = [p \in procs |-> <<>>]
    /\ previous_image_object = [p \in procs |-> None]
    /\ attempt = [p \in procs |-> 0]
    /\ delays = [p \in procs |-> <<>>]
    /\ image_calls = [p \in procs |-> 0]
    /\ image_reply = [p \in procs |-> [raises |-> FALSE, parts |-> <<>>]]
    /\ last_error = [p \in procs |-> NoError]
    /\ raised = [p \in procs |-> NoError]
    /\ image_data = [p \in procs |-> None]
    /\ saved_as = [p \in procs |-> None]
    /\ failed_at = [p \in procs |-> None]
    /\ generated_image_url = [p \in procs |-> None]
    /\ response = [p \in procs |-> [status |-> 0]]
    /\ generated_images = [f \in {StoredFile} |-> "png0"]

Init == InitFor(Requests)

imageClientVars == <<attempt, delays, image_calls, image_reply, last_error, raised,
                     image_data>>
orchestratorVars == <<image_args, previous_image_object, saved_as, failed_at,
                      generated_image_url, generated_images>>
narrativeVars == <<prompt, narrative_calls, narrative_reply, ai_data>>

----------------------------------------------------------------------------
(* start_story, lines 228-259: validation, decoding of the upload, prompt *)

StartStory(p) ==
    /\ pc[p] = "idle"
    /\ \E data \in StoryStartBodies :
         /\ op' = [op EXCEPT ![p] = "start_story"]
         /\ request' = [request EXCEPT ![p] = data]
         /\ LET image == IF Truthy(data.image_data_url)
                         THEN decode_base64_to_image(data.image_data_url)
                         ELSE None
            IN  IF ~check_character_or_image(data)
                THEN /\ response' = [response EXCEPT ![p] = Rejected]
                     /\ pc' = [pc EXCEPT ![p] = "done"]
                     /\ UNCHANGED <<image_input_for_gemini, prompt>>
                ELSE IF image = "DecodeError"
                THEN /\ response' = [response EXCEPT ![p] = ServerError]
                     /\ pc' = [pc EXCEPT ![p] = "done"]
                     /\ UNCHANGED <<image_input_for_gemini, prompt>>
                ELSE /\ image_input_for_gemini' =
                            [image_input_for_gemini EXCEPT ![p] = image]
                     /\ prompt' = [prompt EXCEPT ![p] = InitialPrompt(data)]
                     /\ pc' = [pc EXCEPT ![p] = "narrative"]
                     /\ UNCHANGED response
    /\ UNCHANGED <<is_final_step, narrative_calls, narrative_reply, ai_data>>
    /\ UNCHANGED <<imageClientVars, orchestratorVars>>

(* next_step, lines 277-325: validation and the continuation prompt *)

NextStepOn(p, bodies) ==
    /\ pc[p] = "idle"
    /\ \E data \in bodies :
         /\ op' = [op EXCEPT ![p] = "next_step"]
         /\ request' = [request EXCEPT ![p] = data]
         /\ IF ~check_choice_or_action(data)
            THEN /\ response' = [response EXCEPT ![p] = Rejected]
                 /\ pc' = [pc EXCEPT ![p] = "done"]
                 /\ UNCHANGED <<prompt, is_final_step>>
            ELSE /\ prompt' = [prompt EXCEPT ![p] = ContinuationPrompt(data)]
                 /\ is_final_step' = [is_final_step EXCEPT ![p] = IsFinalStep(data)]
                 /\ pc' = [pc EXCEPT ![p] = "narrative"]
                 /\ UNCHANGED response
    /\ UNCHANGED <<image_input_for_gemini, narrative_calls, narrative_reply, ai_data>>
    /\ UNCHANGED <<imageClientVars, orchestratorVars>>

NextStep(p) == NextStepOn(p, NextStepBodies)

PromptNextStep(p) == NextStepOn(p, PromptBodies)

(* generate_story_part calling the capability a second time after a      *)
(* failed first call                                                      *)

GenerateStoryPart_RetriesOnce(p) ==
    /\ pc[p] = "narrative"
    /\ narrative_calls' = [narrative_calls EXCEPT ![p] = @ + 1]
    /\ \E reply \in NarrativeReplies :
         /\ narrative_reply' = [narrative_reply EXCEPT ![p] = reply]
         /\ IF reply.kind = "json"
            THEN /\ ai_data' = [ai_data EXCEPT ![p] = reply.value]
                 /\ pc' = [pc EXCEPT ![p] = "narrated"]
                 /\ UNCHANGED response
            ELSE IF narrative_calls[p] = 0
            THEN UNCHANGED <<pc, response, ai_data>>
            ELSE /\ response' = [response EXCEPT ![p] = ServerError]
                 /\ pc' = [pc EXCEPT ![p] = "done"]
                 /\ UNCHANGED ai_data
    /\ UNCHANGED <<op, request, image_input_for_gemini, prompt, is_final_step>>
    /\ UNCHANGED <<imageClientVars, orchestratorVars>>

(* generate_story_part, lines 145-156: one call, no retry; a reply that is *)
(* no JSON and any other failure become HTTP 500                           *)

GenerateStoryPart(p) ==
    /\ pc[p] = "narrative"
    /\ narrative_calls' = [narrative_calls EXCEPT ![p] = @ + 1]
    /\ \E reply \in NarrativeReplies :
         /\ narrative_reply' = [narrative_reply EXCEPT ![p] = reply]
         /\ IF reply.kind = "json"
            THEN /\ ai_data' = [ai_data EXCEPT ![p] = reply.value]
                 /\ pc' = [pc EXCEPT ![p] = "narrated"]
                 /\ UNCHANGED response
            ELSE /\ response' = [response EXCEPT ![p] = ServerError]
                 /\ pc' = [pc EXCEPT ![p] = "done"]
                 /\ UNCHANGED ai_data
    /\ UNCHANGED <<op, request, image_input_for_gemini, prompt, is_final_step>>
    /\ UNCHANGED <<imageClientVars, orchestratorVars>>

(* start_story, lines 260-267: the image prompt and the orchestrator call *)

StartStoryContinue(p) ==
    /\ pc[p] = "narrated"
    /\ op[p] = "start_story"
    /\ IF "image_prompt" \in DOMAIN ai_data[p]
       THEN /\ image_args' = [image_args EXCEPT ![p] =
                   [prompt |-> FinalImagePrompt(ai_data[p].image_prompt),
                    previous_image_url |-> None,
                    initial_image |-> image_input_for_gemini[p]]]
            /\ pc' = [pc EXCEPT ![p] = "resolve"]
            /\ UNCHANGED response
       ELSE /\ response' = [response EXCEPT ![p] = ServerError]
            /\ pc' = [pc EXCEPT ![p] = "done"]
            /\ UNCHANGED image_args
    /\ UNCHANGED <<op, request, image_input_for_gemini, is_final_step>>
    /\ UNCHANGED <<narrativeVars, imageClientVars>>
    /\ UNCHANGED <<previous_image_object, saved_as, failed_at,
                   generated_image_url, generated_images>>

(* next_step, lines 326-335: the forced empty choice list, the image       *)
(* prompt and the orchestrator call                                        *)

NextStepContinue(p) ==
    /\ pc[p] = "narrated"
    /\ op[p] = "next_step"
    /\ LET d == ForceFinalChoices(ai_data[p], is_final_step[p])
       IN  /\ ai_data' = [ai_data EXCEPT ![p] = d]
           /\ IF "image_prompt" \in DOMAIN d
              THEN /\ image_args' = [image_args EXCEPT ![p] =
                          [prompt |-> FinalImagePrompt(d.image_prompt),
                           previous_image_url |-> request[p].previous_image_url,
                           initial_image |-> None]]
                   /\ pc' = [pc EXCEPT ![p] = "resolve"]
                   /\ UNCHANGED response
              ELSE /\ response' = [response EXCEPT ![p] = ServerError]
                   /\ pc' = [pc EXCEPT ![p] = "done"]
                   /\ UNCHANGED image_args
    /\ UNCHANGED <<op, request, image_input_for_gemini, is_final_step>>
    /\ UNCHANGED <<prompt, narrative_calls, narrative_reply, imageClientVars>>
    /\ UNCHANGED <<previous_image_object, saved_as, failed_at,
                   generated_image_url, generated_images>>

----------------------------------------------------------------------------
(* generate_consistent_image raising when the previous file is not stored *)

ResolveReference_MissingFileFails(p) ==
    /\ pc[p] = "resolve"
    /\ LET a == image_args[p]
           local_image_path == Basename(a.previous_image_url)
       IN  IF ~Truthy(a.initial_image) /\ Truthy(a.previous_image_url)
           THEN IF local_image_path \in DOMAIN generated_images
                THEN /\ previous_image_object' = [previous_image_object EXCEPT
                            ![p] = generated_images[local_image_path]]
                     /\ pc' = [pc EXCEPT ![p] = "image_call"]
                     /\ UNCHANGED failed_at
                ELSE /\ failed_at' = [failed_at EXCEPT ![p] = "reference"]
                     /\ pc' = [pc EXCEPT ![p] = "fallback"]
                     /\ UNCHANGED previous_image_object
           ELSE /\ previous_image_object' =
                       [previous_image_object EXCEPT ![p] = a.initial_image]
                /\ pc' = [pc EXCEPT ![p] = "image_call"]
                /\ UNCHANGED failed_at
    /\ UNCHANGED <<op, request, image_input_for_gemini, is_final_step, response>>
    /\ UNCHANGED <<narrativeVars, imageClientVars>>
    /\ UNCHANGED <<image_args, saved_as, generated_image_url, generated_images>>

(* generate_consistent_image, lines 195-200: the reference image.  Opening *)
(* a stored file may raise (unreadable file); that is caught at line 214.  *)

ResolveReference(p) ==
    /\ pc[p] = "resolve"
    /\ LET a == image_args[p]
           local_image_path == Basename(a.previous_image_url)
       IN  IF ~Truthy(a.initial_image) /\ Truthy(a.previous_image_url)
              /\ local_image_path \in DOMAIN generated_images
           THEN \E readable \in BOOLEAN :
                  IF readable
                  THEN /\ previous_image_object' = [previous_image_object EXCEPT
                              ![p] = generated_images[local_image_path]]
                       /\ pc' = [pc EXCEPT ![p] = "image_call"]
                       /\ UNCHANGED failed_at
                  ELSE /\ failed_at' = [failed_at EXCEPT ![p] = "reference"]
                       /\ pc' = [pc EXCEPT ![p] = "fallback"]
                       /\ UNCHANGED previous_image_object
           ELSE /\ previous_image_object' =
                       [previous_image_object EXCEPT ![p] = a.initial_image]
                /\ pc' = [pc EXCEPT ![p] = "image_call"]
                /\ UNCHANGED failed_at
    /\ UNCHANGED <<op, request, image_input_for_gemini, is_final_step, response>>
    /\ UNCHANGED <<narrativeVars, imageClientVars>>
    /\ UNCHANGED <<image_args, saved_as, generated_image_url, generated_images>>

(* _blocking_image_generation, lines 167-189: one iteration of the retry   *)
(* loop: the call, then return, or sleep and go on, or raise               *)

ImageAttempt(p) ==
    /\ pc[p] = "image_call"
    /\ image_calls' = [image_calls EXCEPT ![p] = @ + 1]
    /\ \E reply \in ImageReplies :
         LET e == AttemptError(reply)
             caught == [type |-> e, call |-> image_calls[p] + 1]
         IN  /\ image_reply' = [image_reply EXCEPT ![p] = reply]
             /\ IF e = None
                THEN /\ image_data' = [image_data EXCEPT ![p] =
                            FirstInlineData(reply.parts, 1)]
                     /\ pc' = [pc EXCEPT ![p] = "image_returned"]
                     /\ UNCHANGED <<attempt, delays, last_error, raised, failed_at>>
                ELSE /\ last_error' = [last_error EXCEPT ![p] = caught]
                     /\ UNCHANGED image_data
                     /\ IF RetryAllowed(attempt[p])
                        THEN /\ delays' = [delays EXCEPT ![p] =
                                    Append(@, BackoffDelay(attempt[p]))]
                             /\ attempt' = [attempt EXCEPT ![p] = @ + 1]
                             /\ IF InRange(attempt[p] + 1)
                                THEN UNCHANGED <<pc, raised, failed_at>>
                                ELSE /\ raised' = [raised EXCEPT ![p] = LoopEnded]
                                     /\ failed_at' = [failed_at EXCEPT ![p] = "client"]
                                     /\ pc' = [pc EXCEPT ![p] = "fallback"]
                        ELSE /\ raised' = [raised EXCEPT ![p] = caught]
                             /\ failed_at' = [failed_at EXCEPT ![p] = "client"]
                             /\ pc' = [pc EXCEPT ![p] = "fallback"]
                             /\ UNCHANGED <<attempt, delays>>
    /\ UNCHANGED <<op, request, image_input_for_gemini, is_final_step, response>>
    /\ UNCHANGED narrativeVars
    /\ UNCHANGED <<image_args, previous_image_object, saved_as,
                   generated_image_url, generated_images>>

(* generate_consistent_image, lines 204-212: decode the bytes, save them   *)
(* under a uuid4 filename, return the new address; decoding or saving may  *)
(* raise, which is caught at line 214                                      *)

PersistImage(p) ==
    /\ pc[p] = "image_returned"
    /\ IF ~Decodable(image_data[p])
       THEN /\ failed_at' = [failed_at EXCEPT ![p] = "decode"]
            /\ pc' = [pc EXCEPT ![p] = "fallback"]
            /\ UNCHANGED <<saved_as, generated_image_url, generated_images>>
       ELSE \E u \in FreshUuids(generated_images), saved \in BOOLEAN :
              IF saved
              THEN /\ generated_images' =
                          (Filename(u) :> image_data[p]) @@ generated_images
                   /\ saved_as' = [saved_as EXCEPT ![p] = Filename(u)]
                   /\ generated_image_url' = [generated_image_url EXCEPT
                          ![p] = ImageUrl(Filename(u))]
                   /\ pc' = [pc EXCEPT ![p] = "respond"]
                   /\ UNCHANGED failed_at
              ELSE /\ failed_at' = [failed_at EXCEPT ![p] = "save"]
                   /\ pc' = [pc EXCEPT ![p] = "fallback"]
                   /\ UNCHANGED <<saved_as, generated_image_url, generated_images>>
    /\ UNCHANGED <<op, request, image_input_for_gemini, is_final_step, response>>
    /\ UNCHANGED <<narrativeVars, imageClientVars>>
    /\ UNCHANGED <<image_args, previous_image_object>>

(* Fallback with an except clause that catches ValueError only: an API     *)
(* error of the image client leaves the orchestrator and fails the request *)

Fallback_CatchesValueErrorOnly(p) ==
    /\ pc[p] = "fallback"
    /\ IF failed_at[p] = "client" /\ raised[p].type = "ApiError"
       THEN /\ response' = [response EXCEPT ![p] = ServerError]
            /\ pc' = [pc EXCEPT ![p] = "done"]
            /\ UNCHANGED generated_image_url
       ELSE /\ generated_image_url' = [generated_image_url EXCEPT
                   ![p] = FallbackAddress(image_args[p].previous_image_url)]
            /\ pc' = [pc EXCEPT ![p] = "respond"]
            /\ UNCHANGED response
    /\ UNCHANGED <<op, request, image_input_for_gemini, is_final_step>>
    /\ UNCHANGED <<narrativeVars, imageClientVars>>
    /\ UNCHANGED <<image_args, previous_image_object, saved_as, failed_at,
                   generated_images>>

(* generate_consistent_image, lines 214-223: the fallback chain *)

Fallback(p) ==
    /\ pc[p] = "fallback"
    /\ generated_image_url' = [generated_image_url EXCEPT
           ![p] = FallbackAddress(image_args[p].previous_image_url)]
    /\ pc' = [pc EXCEPT ![p] = "respond"]
    /\ UNCHANGED <<op, request, image_input_for_gemini, is_final_step, response>>
    /\ UNCHANGED <<narrativeVars, imageClientVars>>
    /\ UNCHANGED <<image_args, previous_image_object, saved_as, failed_at,
                   generated_images>>

(* start_story, lines 269-274 *)

StartStoryRespond(p) ==
    /\ pc[p] = "respond"
    /\ op[p] = "start_story"
    /\ response' = [response EXCEPT
           ![p] = StartStoryResponse(ai_data[p], generated_image_url[p])]
    /\ pc' = [pc EXCEPT ![p] = "done"]
    /\ UNCHANGED <<op, request, image_input_for_gemini, is_final_step>>
    /\ UNCHANGED <<narrativeVars, imageClientVars, orchestratorVars>>

(* next_step, lines 337-344 *)

NextStepRespond(p) ==
    /\ pc[p] = "respond"
    /\ op[p] = "next_step"
    /\ response' = [response EXCEPT
           ![p] = NextStepResponse(ai_data[p], generated_image_url[p],
                                   request[p].story_history)]
    /\ pc' = [pc EXCEPT ![p] = "done"]
    /\ UNCHANGED <<op, request, image_input_for_gemini, is_final_step>>
    /\ UNCHANGED <<narrativeVars, imageClientVars, orchestratorVars>>

----------------------------------------------------------------------------

Step(p) ==
        \/ StartStory(p)
        \/ NextStep(p)
        \/ GenerateStoryPart(p)
        \/ StartStoryContinue(p)
        \/ NextStepContinue(p)
        \/ ResolveReference(p)
        \/ ImageAttempt(p)
        \/ PersistImage(p)
        \/ Fallback(p)
        \/ StartStoryRespond(p)
        \/ NextStepRespond(p)

Next == \E p \in Requests : Step(p)

Spec == Init /\ [][Next]_vars

(* Two requests in flight at once.  The handlers are coroutines on one    *)
(* event loop and give way at each await (lines 259, 264, 325, 332); the   *)
(* image client runs in a worker thread (line 202).  The requests and the  *)
(* replies of the two services are drawn from smaller sets.               *)

ConcurrentRequests == {1, 2}

ConcurrentStartBodies ==
    [character : {"Mimi"}, setting : {"forest"}, total_steps : {1},
     image_data_url : {None, "good"}]

\* the previous image is none, the stored file, or a file another request
\* may have stored meanwhile
ConcurrentNextBodies ==
    [choice_id : {"A"}, user_action : {None}, story_history : {<<>>},
     previous_image_url : {None, ImageUrl(StoredFile), ImageUrl(Filename("u1"))},
     current_step : {1}, total_steps : {1}]

ConcurrentNarrativeReplies == {[kind |-> "json", value |-> FullAiData(TwoChoices)]}

ConcurrentImageReplies ==
    { [raises |-> TRUE, parts |-> <<>>],
      [raises |-> FALSE, parts |-> <<TextPart, InlinePart("png1"), InlinePart("junk")>>] }

InitConcurrent == InitFor(ConcurrentRequests)

ConcurrentStartStory(p) == StartStory(p) /\ request'[p] \in ConcurrentStartBodies

ConcurrentNextStep(p) == NextStepOn(p, ConcurrentNextBodies)

ConcurrentGenerateStoryPart(p) ==
    GenerateStoryPart(p) /\ narrative_reply'[p] \in ConcurrentNarrativeReplies

ConcurrentImageAttempt(p) ==
    ImageAttempt(p) /\ image_reply'[p] \in ConcurrentImageReplies

ConcurrentStep(p) ==
        \/ ConcurrentStartStory(p)
        \/ ConcurrentNextStep(p)
        \/ ConcurrentGenerateStoryPart(p)
        \/ StartStoryContinue(p)
        \/ NextStepContinue(p)
        \/ ResolveReference(p)
        \/ ConcurrentImageAttempt(p)
        \/ PersistImage(p)
        \/ Fallback(p)
        \/ StartStoryRespond(p)
        \/ NextStepRespond(p)

ConcurrentNext == \E p \in ConcurrentRequests : ConcurrentStep(p)

SpecConcurrent == InitConcurrent /\ [][ConcurrentNext]_vars

(* next_step alone, on the bodies with longer histories and stories *)

PromptStep(p) ==
        \/ PromptNextStep(p)
        \/ GenerateStoryPart(p)
        \/ NextStepContinue(p)
        \/ ResolveReference(p)
        \/ ImageAttempt(p)
        \/ PersistImage(p)
        \/ Fallback(p)
        \/ NextStepRespond(p)

PromptNext == \E p \in Requests : PromptStep(p)

SpecPrompt == Init /\ [][PromptNext]_vars

----------------------------------------------------------------------------
(* Properties *)

Procs == DOMAIN pc

\* the request of p ended by returning a StoryResponse
ReturnedStep(p) == pc[p] = "done" /\ response[p].status = 200

\* generate_consistent_image of p has returned
OrchestratorReturned(p) ==
    pc[p] \in {"respond", "done"} /\ generated_image_url[p] # None

\* C1: a next_step call with current_step = total_steps that returns a step
\* returns an empty choice list, whatever choices the generator replied.
C1_FinalStepHasNoChoices ==
    \A p \in Procs :
        (/\ op[p] = "next_step"
         /\ ReturnedStep(p)
         /\ request[p].current_step = request[p].total_steps)
        => response[p].body.choices = <<>>

\* a final step was returned although the generator replied two choices
C1_Witness ==
    \E p \in Procs :
        /\ op[p] = "next_step"
        /\ ReturnedStep(p)
        /\ request[p].current_step = request[p].total_steps
        /\ "choices" \in DOMAIN narrative_reply[p].value
        /\ narrative_reply[p].value.choices = TwoChoices

\* C2: a next_step call that returns a step returns the main_quest of the
\* first history step, also when the generator replied another main_quest.
C2_MainQuestIsHistoryZero ==
    \A p \in Procs :
        (/\ op[p] = "next_step"
         /\ ReturnedStep(p)
         /\ request[p].story_history # <<>>)
        => response[p].body.main_quest = request[p].story_history[1].main_quest

\* a step was returned whose generator reply carried a different main_quest
C2_Witness ==
    \E p \in Procs :
        /\ op[p] = "next_step"
        /\ ReturnedStep(p)
        /\ request[p].story_history # <<>>
        /\ "main_quest" \in DOMAIN narrative_reply[p].value
        /\ narrative_reply[p].value.main_quest
             # request[p].story_history[1].main_quest

\* C3: once generate_story_part has returned, the request ends by returning
\* a StoryResponse (in start_story and in next_step).
C3_StepReturnedOnceNarrated ==
    \A p \in Procs :
        (pc[p] = "done" /\ narrative_reply[p].kind = "json")
        => response[p].status = 200

\* C4: generate_consistent_image never raises: once called it is never stuck
\* and it returns the new address, the previous address or the placeholder,
\* whatever reference resolution, the image calls, decoding and saving did.
C4_OrchestratorAlwaysReturnsAddress ==
    \A p \in Procs :
        /\ pc[p] \in {"resolve", "image_call", "image_returned", "fallback"}
           => ENABLED Step(p)
        /\ (pc[p] \in {"respond", "done"} /\ DOMAIN image_args[p] # {})
           => \/ /\ failed_at[p] = None
                 /\ saved_as[p] # None
                 /\ generated_image_url[p] = ImageUrl(saved_as[p])
              \/ /\ failed_at[p] # None
                 /\ Truthy(image_args[p].previous_image_url)
                 /\ generated_image_url[p] = image_args[p].previous_image_url
              \/ /\ failed_at[p] # None
                 /\ ~Truthy(image_args[p].previous_image_url)
                 /\ generated_image_url[p] = PLACEHOLDER_URL

\* the orchestrator returned after the image client raised an API error
C4_Witness ==
    \E p \in Procs :
        /\ OrchestratorReturned(p)
        /\ failed_at[p] = "client"
        /\ raised[p].type = "ApiError"

\* C5: when a step of generate_consistent_image fails and a non-empty
\* previous_image_url was passed, that address is returned unchanged and
\* the request has written no file.
C5_FailureReusesPreviousAddress ==
    \A p \in Procs :
        (/\ OrchestratorReturned(p)
         /\ failed_at[p] # None
         /\ Truthy(image_args[p].previous_image_url))
        => /\ generated_image_url[p] = image_args[p].previous_image_url
           /\ op[p] = "next_step"
           /\ generated_image_url[p] = request[p].previous_image_url
           /\ saved_as[p] = None
           /\ \A f \in DOMAIN generated_images :
                \/ f = StoredFile
                \/ \E q \in Procs \ {p} : saved_as[q] = f
           /\ ReturnedStep(p) => response[p].body.image_url
                                   = request[p].previous_image_url

\* all three image calls failed with a previous address given
C5_Witness ==
    \E p \in Procs :
        /\ OrchestratorReturned(p)
        /\ failed_at[p] = "client"
        /\ image_calls[p] = 3
        /\ Truthy(image_args[p].previous_image_url)

\* C6: when all three image calls fail and no previous_image_url was passed
\* (start_story never passes one), the placeholder address is returned.
C6_FailureWithoutPreviousIsPlaceholder ==
    \A p \in Procs :
        /\ (DOMAIN image_args[p] # {} /\ op[p] = "start_story")
           => image_args[p].previous_image_url = None
        /\ (/\ OrchestratorReturned(p)
            /\ failed_at[p] = "client"
            /\ ~Truthy(image_args[p].previous_image_url))
           => /\ generated_image_url[p] = PLACEHOLDER_URL
              /\ ReturnedStep(p) => response[p].body.image_url = PLACEHOLDER_URL

\* start_story returned a step after all three image calls failed
C6_Witness ==
    \E p \in Procs :
        /\ op[p] = "start_story"
        /\ ReturnedStep(p)
        /\ failed_at[p] = "client"
        /\ image_calls[p] = 3

\* the image client of p returned bytes at its third call
ThirdCallSucceeded(p) == image_calls[p] = 3 /\ image_data[p] # None

\* C7: when image calls 1 and 2 fail and call 3 succeeds, exactly the delays
\* 2 then 4 were slept, each before the next call, and when the bytes decode
\* and are saved the address returned is the new one, not the previous
\* address nor the placeholder.
C7_ThirdAttemptSuccess ==
    \A p \in Procs :
        /\ ThirdCallSucceeded(p) => delays[p] = <<2, 4>>
        /\ (pc[p] = "image_call" /\ image_calls[p] = 1) => delays[p] = <<2>>
        /\ (pc[p] = "image_call" /\ image_calls[p] = 2) => delays[p] = <<2, 4>>
        /\ (ThirdCallSucceeded(p) /\ OrchestratorReturned(p) /\ failed_at[p] = None)
           => /\ saved_as[p] \in DOMAIN generated_images
              /\ generated_images[saved_as[p]] = image_data[p]
              /\ generated_image_url[p] = ImageUrl(saved_as[p])
              /\ generated_image_url[p] # image_args[p].previous_image_url
              /\ generated_image_url[p] # PLACEHOLDER_URL
              /\ ReturnedStep(p)
                 => response[p].body.image_url = ImageUrl(saved_as[p])

\* a step was returned with the image of a third call, a previous address given
C7_Witness ==
    \E p \in Procs :
        /\ ThirdCallSucceeded(p)
        /\ ReturnedStep(p)
        /\ failed_at[p] = None
        /\ Truthy(image_args[p].previous_image_url)

\* C8: one run of the image client makes at most 3 calls; it returns at the
\* first call that yields a payload and calls no more; when all 3 calls fail
\* it raises the exception of the third call.
C8_ClientBoundedAndRaisesLastError ==
    \A p \in Procs :
        /\ image_calls[p] <= 3
        /\ pc[p] = "image_call" => (image_calls[p] < 3 /\ ENABLED ImageAttempt(p))
        /\ image_data[p] # None
           => /\ pc[p] # "image_call"
              /\ image_calls[p] = Len(delays[p]) + 1
              /\ raised[p] = NoError
        /\ raised[p] # NoError
           => /\ image_calls[p] = 3
              /\ image_data[p] = None
              /\ raised[p].call = 3
              /\ raised[p] = last_error[p]
              /\ raised[p].type = AttemptError(image_reply[p])

\* the client raised after a third call that returned no payload
C8_Witness ==
    \E p \in Procs :
        /\ raised[p] # NoError
        /\ image_calls[p] = 3
        /\ ~image_reply[p].raises

NoInlinePayload(parts) == \A i \in 1..Len(parts) : parts[i].inline_data = None

\* C10: an image call that returns no inline payload is handled like a call
\* that raises: it uses up one of the 3 calls, is followed by the same delay
\* and is retried (or, as the third call, ends the run with its exception); a
\* call that returns an inline payload ends the run with the first payload.
C10_NoPayloadIsAFailedAttempt ==
    [][ \A p \in Procs :
          image_calls'[p] = image_calls[p] + 1
          => LET reply == image_reply'[p]
                 failed == reply.raises \/ NoInlinePayload(reply.parts)
             IN  /\ (failed /\ image_calls[p] < 2)
                    => /\ pc'[p] = "image_call"
                       /\ image_data'[p] = None
                       /\ delays'[p] = Append(delays[p], 2 * (2 ^ image_calls[p]))
                       /\ attempt'[p] = attempt[p] + 1
                 /\ (failed /\ image_calls[p] = 2)
                    => /\ pc'[p] = "fallback"
                       /\ image_data'[p] = None
                       /\ delays'[p] = delays[p]
                       /\ raised'[p].call = 3
                 /\ ~failed
                    => /\ pc'[p] = "image_returned"
                       /\ delays'[p] = delays[p]
                       /\ \E i \in 1..Len(reply.parts) :
                            /\ reply.parts[i].inline_data # None
                            /\ \A j \in 1..(i - 1) : reply.parts[j].inline_data = None
                            /\ image_data'[p] = reply.parts[i].inline_data ]_vars

\* a call that returned parts without payload was followed by a delay and a
\* further call
C10_Witness ==
    \E p \in Procs :
        /\ pc[p] = "image_call"
        /\ image_calls[p] = 2
        /\ ~image_reply[p].raises
        /\ NoInlinePayload(image_reply[p].parts)
        /\ image_reply[p].parts # <<>>

\* the request of p was turned down by its validator
WasRejected(p) == response[p].status = 422

\* nothing was generated or written for the request of p
NothingGenerated(p) ==
    /\ narrative_calls[p] = 0
    /\ image_calls[p] = 0
    /\ DOMAIN prompt[p] = {}
    /\ saved_as[p] = None
    /\ \A f \in DOMAIN generated_images :
         f = StoredFile \/ \E q \in Procs \ {p} : saved_as[q] = f

\* C11: a next_step request is accepted iff exactly one of choice_id (not
\* None) and user_action (not None and not blank) is given; with both or
\* neither it is rejected, and a rejected request has made no narrative or
\* image call and has written no file.
C11_ExactlyOneOfChoiceAndAction ==
    \A p \in Procs :
        op[p] = "next_step"
        => LET choice_given == request[p].choice_id # None
               action_given == request[p].user_action \notin {None, "", " "}
           IN  /\ WasRejected(p) <=> (choice_given <=> action_given)
               /\ WasRejected(p) => (pc[p] = "done" /\ NothingGenerated(p))

\* a request giving a choice_id and a user_action was rejected
C11_Witness ==
    \E p \in Procs :
        /\ op[p] = "next_step"
        /\ WasRejected(p)
        /\ request[p].choice_id = "A"
        /\ request[p].user_action = "act"

\* C12: a start_story request is accepted iff a non-blank character or a
\* non-blank image_data_url is present (both may be); with neither it is
\* rejected, and a rejected request has made no generation call.
C12_CharacterOrImageRequired ==
    \A p \in Procs :
        op[p] = "start_story"
        => LET character_given == request[p].character \notin {None, "", " "}
               image_given == request[p].image_data_url \notin {None, "", " "}
           IN  /\ WasRejected(p) <=> (~character_given /\ ~image_given)
               /\ WasRejected(p) => (pc[p] = "done" /\ NothingGenerated(p))

\* a request with a character and an upload reached the narrative call
C12_Witness ==
    \E p \in Procs :
        /\ op[p] = "start_story"
        /\ request[p].character = "Mimi"
        /\ request[p].image_data_url = "good"
        /\ narrative_calls[p] = 1

\* generate_consistent_image of p has got past its reference resolution
ReferenceResolved(p) ==
    /\ DOMAIN image_args[p] # {}
    /\ pc[p] # "resolve"
    /\ failed_at[p] # "reference"

\* the address names a file of generated_images/
IsStored(url) == \E f \in DOMAIN generated_images : url = ImageUrl(f)

\* C16: the reference handed to the image client is the initial image when
\* one was passed (next_step passes none); else the stored file of
\* previous_image_url when that address is given and the file exists; else
\* none.  A previous file that is not stored is no failure: the image client
\* is called without a reference.
C16_ReferenceResolutionOrder ==
    \A p \in Procs :
        /\ (DOMAIN image_args[p] # {} /\ op[p] = "next_step")
           => image_args[p].initial_image = None
        /\ ReferenceResolved(p)
           => LET a == image_args[p]
              IN  /\ a.initial_image \notin {None, ""}
                     => previous_image_object[p] = a.initial_image
                  /\ (/\ a.initial_image = None
                      /\ a.previous_image_url \notin {None, ""}
                      /\ IsStored(a.previous_image_url))
                     => /\ previous_image_object[p] = "png0"
                        /\ a.previous_image_url = ImageUrl(StoredFile)
                  /\ (/\ a.initial_image = None
                      /\ \/ a.previous_image_url \in {None, ""}
                         \/ ~IsStored(a.previous_image_url))
                     => previous_image_object[p] = None
        /\ (/\ DOMAIN image_args[p] # {}
            /\ pc[p] # "resolve"
            /\ ~IsStored(image_args[p].previous_image_url))
           => /\ failed_at[p] # "reference"
              /\ pc[p] = "image_call" \/ image_calls[p] >= 1

\* the image client was called without a reference because the previous
\* file is not stored
C16_Witness ==
    \E p \in Procs :
        /\ op[p] = "next_step"
        /\ ReferenceResolved(p)
        /\ image_args[p].previous_image_url = ImageUrl("gone.png")
        /\ image_calls[p] >= 1
        /\ previous_image_object[p] = None

\* the narrative call of p failed
NarrativeFailed(p) == narrative_reply[p].kind \in {"service_error", "not_json"}

\* the upload of the start_story request of p passed validation and does not decode
UploadUndecodable(p) ==
    /\ op[p] = "start_story"
    /\ ~WasRejected(p)
    /\ request[p].image_data_url \in {" ", "bad"}

\* C17: a request calls the narrative capability at most once; when the
\* upload does not decode or the narrative call fails (reply that is no JSON,
\* or any other error), the request ends with a server error, returns no
\* step, makes no image call and writes no file.
C17_NarrativeFailureIsFatal ==
    \A p \in Procs :
        /\ narrative_calls[p] <= 1
        /\ pc[p] \notin {"idle", "narrative"} /\ ~WasRejected(p) /\ ~UploadUndecodable(p)
           => narrative_calls[p] = 1
        /\ UploadUndecodable(p) => narrative_calls[p] = 0
        /\ (NarrativeFailed(p) \/ UploadUndecodable(p))
           => /\ pc[p] = "done"
              /\ response[p].status = 500
              /\ image_calls[p] = 0
              /\ DOMAIN image_args[p] = {}
              /\ saved_as[p] = None
              /\ \A f \in DOMAIN generated_images :
                   f = StoredFile \/ \E q \in Procs \ {p} : saved_as[q] = f

\* a request ended after a narrative reply that was no JSON
C17_Witness ==
    \E p \in Procs :
        /\ pc[p] = "done"
        /\ narrative_reply[p].kind = "not_json"
        /\ narrative_calls[p] = 1

\* the step of p is the final one
IsFinalRequest(p) ==
    op[p] = "next_step" /\ request[p].current_step = request[p].total_steps

\* C15 as stated: a returned step has an empty choice list iff it is the
\* final step (current_step = total_steps).
C15_Original_EmptyIffFinal ==
    \A p \in Procs :
        ReturnedStep(p) => (response[p].body.choices = <<>> <=> IsFinalRequest(p))

\* C15 amended: a step returned by next_step with current_step = total_steps
\* has an empty choice list; every other returned step (start_story, or
\* next_step before the final step) carries exactly the choice list the
\* generator replied, empty or not.
C15_EmptyWhenFinalElseGenerators ==
    \A p \in Procs :
        ReturnedStep(p)
        => IF IsFinalRequest(p)
           THEN response[p].body.choices = <<>>
           ELSE /\ "choices" \in DOMAIN narrative_reply[p].value
                /\ response[p].body.choices = narrative_reply[p].value.choices

\* start_story returned a step without choices
C15_Witness ==
    \E p \in Procs :
        /\ op[p] = "start_story"
        /\ ReturnedStep(p)
        /\ response[p].body.choices = <<>>

\* the next_step request of p passed validation
Accepted(p) == op[p] = "next_step" /\ ~WasRejected(p)

\* C19: for a next_step request that passed validation the action line of
\* the prompt is not empty and is built from the input the validator counted:
\* from user_action when that is not blank, else from the chosen option.
C19_ActionLineFromValidatedInput ==
    \A p \in Procs :
        Accepted(p)
        => LET line == prompt[p].action_description_line
               action_given == request[p].user_action \notin {None, "", " "}
           IN  /\ line # <<>>
               /\ action_given => line = <<"custom action", request[p].user_action>>
               /\ ~action_given => line[1] = "chose option"

C14_ExactlyOnePhase ==
    \A p \in Procs :
        (Accepted(p) /\ request[p].current_step <= request[p].total_steps)
        => LET cs == request[p].current_step
               ts == request[p].total_steps
               phase == prompt[p].narrative_guidance.phase
           IN  /\ phase \in {"finale", "climax", "developing"}
               /\ phase = "finale" <=> cs = ts
               /\ phase = "climax" <=> (3 * ts <= 4 * cs /\ cs < ts)
               /\ phase = "developing" <=> 4 * cs < 3 * ts

\* step 3 of 4 is exactly at three quarters and is a climax step; a step
\* has been returned for it
C14_Witness ==
    \E p \in Procs :
        /\ Accepted(p)
        /\ request[p].current_step = 3
        /\ request[p].total_steps = 4
        /\ prompt[p].narrative_guidance.phase = "climax"
        /\ ReturnedStep(p)

\* C13: in a next_step call that passed validation with a choice_id, a
\* choice_id matching no id among the choices of the last history step gives
\* the "continue" phrase as action description, and a matching one gives
\* the text of the first matching choice of the last history step.
C13_ChoiceLookup ==
    \A p \in Procs :
        (Accepted(p) /\ request[p].choice_id # None)
        => LET h == request[p].story_history
               last == IF h = <<>> THEN <<>> ELSE h[Len(h)].choices
               matches == {i \in 1..Len(last) : last[i].id = request[p].choice_id}
               first == CHOOSE i \in matches : \A j \in matches : i <= j
           IN  prompt[p].action_description_line =
                   <<"chose option", IF matches = {} THEN "continue" ELSE last[first].text>>

\* the stored files of the requests are pairwise different, none is a file
\* of an earlier step, each still holds what its request saved, and a
\* reference read from a stored file is still what that file holds
FilesIntact ==
    /\ \A p \in Procs :
         saved_as[p] # None
         => /\ saved_as[p] # StoredFile
            /\ \A q \in Procs \ {p} : saved_as[q] # saved_as[p]
            /\ saved_as[p] \in DOMAIN generated_images
            /\ generated_images[saved_as[p]] = image_data[p]
            /\ generated_image_url[p] = ImageUrl(saved_as[p])
    /\ \A p \in Procs :
         previous_image_object[p] \notin {None, "upload"}
         => generated_images[Basename(image_args[p].previous_image_url)]
                = previous_image_object[p]

\* a step keeps every stored file as it is, and what it stores is a new file
NoFileOverwritten ==
    /\ \A f \in DOMAIN generated_images :
         f \in DOMAIN generated_images' /\ generated_images'[f] = generated_images[f]
    /\ \A p \in Procs :
         saved_as'[p] # saved_as[p]
         => saved_as'[p] \notin DOMAIN generated_images

\* C18: under any interleaving of concurrent requests every successful
\* image generation stores its image under a filename no other request and
\* no earlier step uses; no stored file is ever overwritten, and a previous
\* image read as reference by one request is never changed by another.
C18_NoStoredFileOverwritten == []FilesIntact /\ [][NoFileOverwritten]_vars

\* both requests have stored an image, and one of them read as reference
\* the file the other one stored
C18_Witness ==
    /\ \A p \in Procs : saved_as[p] # None
    /\ Cardinality(Procs) = 2
    /\ \E p \in Procs :
         /\ op[p] = "next_step"
         /\ previous_image_object[p] = "png1"
         /\ pc[p] = "done"

====
